---- MODULE Spec2Model ----
(***************************************************************************)
(* A model of tf_agents/environments/py_to_dm_wrapper.py: the three pure   *)
(* converters (_convert_timestep, _convert_spec, _convert_action_spec) and *)
(* the PyToDMWrapper adapter around a wrapped PyEnvironment.               *)
(*                                                                         *)
(* Values.  A numpy array is a record [shape, data]: shape is the tuple of *)
(* dimensions, data the elements in row-major order.  A Python or numpy    *)
(* scalar is the array of shape <<>> with one element.  The outcome of a   *)
(* call is [kind |-> "return", value |-> v] or [kind |-> "raise",          *)
(* error |-> e].                                                           *)
(***************************************************************************)
EXTENDS Integers, Sequences, FiniteSets

VARIABLES
  fn,                 \* name of the pure converter that has been applied, or "none"
  fnArg,              \* argument of the pure converter under examination
  fnRet,              \* its outcome
  env,                \* the wrapped PyEnvironment (its batched flag and specs)
  status,             \* "new", "ready" (constructed), "failed" (__init__ raised);
                      \* "idle" where only a pure converter is examined
  _environment,       \* self._environment
  _observation_spec,  \* self._observation_spec
  _action_spec,       \* self._action_spec
  _discount_spec,     \* self._discount_spec
  envLog,             \* every call the wrapped environment has received, in order
  callLog,            \* every reset/step/close call made on the adapter, in order
  lastCall,           \* the most recent call made on the adapter
  lastSrc,            \* outcome of the wrapped call made by the most recent call
  lastRet             \* outcome of the most recent call made on the adapter

vars == <<fn, fnArg, fnRet, env, status, _environment, _observation_spec,
          _action_spec, _discount_spec, envLog, callLog, lastCall, lastSrc,
          lastRet>>

adapterVars == <<env, status, _environment, _observation_spec, _action_spec,
                 _discount_spec, envLog, callLog, lastCall, lastSrc, lastRet>>

-----------------------------------------------------------------------------
(* Bounds of the model.                                                    *)

\* Array elements range over 0..MaxElem (0 stands for 0.0, 1 for 1.0).
MaxElem == 2
\* Every dimension of an array shape is in 1..MaxDim; shapes have rank <= 2.
MaxDim == 3
\* At most MaxCalls reset/step/close calls are made on one adapter.
MaxCalls == 2

-----------------------------------------------------------------------------
(* Values                                                                  *)

None == [kind |-> "None"]
\* The reference to the wrapped environment object.
EnvRef == [kind |-> "PyEnvironment"]
Unset == [kind |-> "unset"]
\* A call is its operation's name and its argument ("" when it takes none).
Call(op, arg) == [op |-> op, arg |-> arg]
NoCall == Call("none", "")
Return(v) == [kind |-> "return", value |-> v]
Raise(e) == [kind |-> "raise", error |-> e]

Elems == 0..MaxElem
Dims == 1..MaxDim
Shapes == {<<>>} \cup {<<d>> : d \in Dims} \cup {<<d, e>> : d \in Dims, e \in Dims}

RECURSIVE Product(_)
Product(s) == IF s = <<>> THEN 1 ELSE Head(s) * Product(Tail(s))

Scalar(v) == [shape |-> <<>>, data |-> <<v>>]

\* The array of the given shape whose elements count up from `first`.
Ramp(shape, first) ==
  [shape |-> shape,
   data |-> [i \in 1..Product(shape) |-> (first + i - 1) % (MaxElem + 1)]]

Arrays == {Ramp(s, v) : s \in Shapes, v \in Elems}

Observations == {"obs_a", "obs_b"}

\* A source timestep, as _convert_timestep sees it: the answers of its three
\* phase predicates and its reward, discount and observation fields.
TimeSteps ==
  [is_first : BOOLEAN, is_mid : BOOLEAN, is_last : BOOLEAN,
   reward : Arrays, discount : Arrays, observation : Observations]

-----------------------------------------------------------------------------
(* _convert_timestep                                                       *)

\* Mutant: the singleton dimensions are left in place.
squeeze_kept(a) == a

\* np.squeeze: every dimension of size 1 is removed, the elements are kept.
squeeze(a) ==
  [shape |-> SelectSeq(a.shape, LAMBDA d : d # 1), data |-> a.data]

\* Mutant: a timestep of no recognised phase is taken for a MID one.
_convert_timestep_default_mid(timestep) ==
  LET step_type == IF timestep.is_first THEN "FIRST"
                   ELSE IF timestep.is_last THEN "LAST"
                   ELSE "MID"
  IN Return(
       [step_type |-> step_type,
        reward |-> IF timestep.is_first THEN Scalar(0)
                   ELSE squeeze(timestep.reward),
        discount |-> IF timestep.is_first THEN Scalar(1)
                     ELSE squeeze(timestep.discount),
        observation |-> timestep.observation])

\* Mutant: the reward and discount of a first step are passed through.
_convert_timestep_passthrough(timestep) ==
  LET step_type == IF timestep.is_first THEN "FIRST"
                   ELSE IF timestep.is_last THEN "LAST"
                   ELSE IF timestep.is_mid THEN "MID"
                   ELSE "invalid"
  IN IF step_type = "invalid"
     THEN Raise("ValueError")
     ELSE Return(
       [step_type |-> step_type,
        reward |-> squeeze(timestep.reward),
        discount |-> squeeze(timestep.discount),
        observation |-> timestep.observation])

_convert_timestep(timestep) ==
  LET step_type == IF timestep.is_first THEN "FIRST"
                   ELSE IF timestep.is_last THEN "LAST"
                   ELSE IF timestep.is_mid THEN "MID"
                   ELSE "invalid"
  IN IF step_type = "invalid"
     THEN Raise("ValueError")
     ELSE Return(
       [step_type |-> step_type,
        reward |-> IF timestep.is_first THEN Scalar(0)
                   ELSE squeeze(timestep.reward),
        discount |-> IF timestep.is_first THEN Scalar(1)
                     ELSE squeeze(timestep.discount),
        observation |-> timestep.observation])

-----------------------------------------------------------------------------
(* The adapter is idle in the specifications of the pure converters.       *)

IdleAdapter ==
  /\ env = None
  /\ status = "idle"
  /\ _environment = None
  /\ _observation_spec = Unset
  /\ _action_spec = Unset
  /\ _discount_spec = Unset
  /\ envLog = <<>>
  /\ callLog = <<>>
  /\ lastCall = NoCall
  /\ lastSrc = None
  /\ lastRet = None

InitTimestep ==
  /\ fn = "none"
  /\ fnArg \in TimeSteps
  /\ fnRet = None
  /\ IdleAdapter

ConvertTimestep ==
  /\ fn = "none"
  /\ fn' = "_convert_timestep"
  /\ fnRet' = _convert_timestep(fnArg)
  /\ UNCHANGED <<fnArg, adapterVars>>

NextTimestep == ConvertTimestep

SpecTimestep == InitTimestep /\ [][NextTimestep]_vars

-----------------------------------------------------------------------------
(* _convert_spec and _convert_action_spec on one leaf spec                 *)

Dtypes == {"int32", "int64", "float32"}
Names == {"action", "observation"}

\* tfa_spec.ArraySpec(shape, dtype, name)
ArraySpec(shape, dtype, name) ==
  [kind |-> "ArraySpec", shape |-> shape, dtype |-> dtype, name |-> name]

\* tfa_spec.BoundedArraySpec(shape, dtype, minimum, maximum, name); minimum and
\* maximum are held as arrays.
BoundedArraySpec(shape, dtype, minimum, maximum, name) ==
  [kind |-> "BoundedArraySpec", shape |-> shape, dtype |-> dtype,
   minimum |-> Scalar(minimum), maximum |-> Scalar(maximum), name |-> name]

\* The leaf specs of the source convention: unbounded, and bounded with
\* -1 <= minimum <= 1 <= maximum <= MaxElem.
LeafSpecs ==
  {ArraySpec(s, d, n) : s \in Shapes, d \in Dtypes, n \in Names}
  \cup UNION {{BoundedArraySpec(s, d, lo, hi, n) :
                 s \in Shapes, d \in Dtypes, n \in Names} :
              lo \in -1..1, hi \in 1..MaxElem}

\* isinstance(spec, tfa_spec.BoundedArraySpec)
isBounded(spec) == spec.kind = "BoundedArraySpec"

\* np.issubdtype(dtype, np.integer)
issubdtype_integer(dtype) == dtype \in {"int32", "int64"}

\* ndarray.item() of a one-element array
item(a) == a.data[1]

\* Mutant: the bounds are dropped.
_convert_spec_unbounded(spec) ==
  [kind |-> "Array", shape |-> spec.shape, dtype |-> spec.dtype,
   name |-> spec.name]

_convert_spec(spec) ==
  IF isBounded(spec)
  THEN [kind |-> "BoundedArray", shape |-> spec.shape, dtype |-> spec.dtype,
        minimum |-> spec.minimum, maximum |-> spec.maximum, name |-> spec.name]
  ELSE [kind |-> "Array", shape |-> spec.shape, dtype |-> spec.dtype,
        name |-> spec.name]

\* Mutant: the minimum is not required to be 0.
_convert_action_spec_any_minimum(spec) ==
  IF /\ isBounded(spec)
     /\ spec.shape = <<>>
     /\ issubdtype_integer(spec.dtype)
  THEN [kind |-> "DiscreteArray",
        num_values |-> item(spec.maximum) - item(spec.minimum) + 1,
        dtype |-> spec.dtype, name |-> spec.name]
  ELSE _convert_spec(spec)

_convert_action_spec(spec) ==
  IF /\ isBounded(spec)
     /\ spec.shape = <<>>
     /\ issubdtype_integer(spec.dtype)
     /\ item(spec.minimum) = 0
  THEN [kind |-> "DiscreteArray",
        num_values |-> item(spec.maximum) - item(spec.minimum) + 1,
        dtype |-> spec.dtype, name |-> spec.name]
  ELSE _convert_spec(spec)

InitLeaf ==
  /\ fn = "none"
  /\ fnArg \in LeafSpecs
  /\ fnRet = None
  /\ IdleAdapter

ConvertSpec ==
  /\ fn = "none"
  /\ fn' = "_convert_spec"
  /\ fnRet' = Return(_convert_spec(fnArg))
  /\ UNCHANGED <<fnArg, adapterVars>>

ConvertActionSpec ==
  /\ fn = "none"
  /\ fn' = "_convert_action_spec"
  /\ fnRet' = Return(_convert_action_spec(fnArg))
  /\ UNCHANGED <<fnArg, adapterVars>>

NextLeaf == ConvertSpec \/ ConvertActionSpec

SpecLeaf == InitLeaf /\ [][NextLeaf]_vars

-----------------------------------------------------------------------------
(* Nested structures of specs, and tree.map_structure                      *)
(*                                                                         *)
(* A structure is a leaf spec, a list [kind |-> "list", items |-> <<..>>]  *)
(* or a mapping [kind |-> "dict", keys |-> <<..>>, values |-> <<..>>]      *)
(* whose i-th key maps to its i-th value.                                  *)

List(items) == [kind |-> "list", items |-> items]
Dict(keys, values) == [kind |-> "dict", keys |-> keys, values |-> values]

\* Application of a converter passed by name.
Apply(func, leaf) ==
  IF func = "_convert_action_spec" THEN _convert_action_spec(leaf)
  ELSE _convert_spec(leaf)

Reverse(seq) == [i \in 1..Len(seq) |-> seq[Len(seq) + 1 - i]]

\* Mutant: the items of a list come back in reverse order.
RECURSIVE map_structure_reversed(_, _)
map_structure_reversed(func, structure) ==
  IF structure.kind = "list"
  THEN List(Reverse([i \in 1..Len(structure.items) |->
                       map_structure_reversed(func, structure.items[i])]))
  ELSE IF structure.kind = "dict"
  THEN Dict(structure.keys,
            [i \in 1..Len(structure.values) |->
               map_structure_reversed(func, structure.values[i])])
  ELSE Apply(func, structure)

RECURSIVE map_structure(_, _)
map_structure(func, structure) ==
  IF structure.kind = "list"
  THEN List([i \in 1..Len(structure.items) |->
               map_structure(func, structure.items[i])])
  ELSE IF structure.kind = "dict"
  THEN Dict(structure.keys,
            [i \in 1..Len(structure.values) |->
               map_structure(func, structure.values[i])])
  ELSE Apply(func, structure)

-----------------------------------------------------------------------------
(* The wrapped environments                                                *)

\* The structures built over two leaves: a bare leaf, a list, a mapping, and
\* a mapping holding a list that holds a mapping.
StructuresOver(x, y) ==
  { x,
    List(<<x, y>>),
    Dict(<<"a", "b">>, <<x, y>>),
    Dict(<<"b", "a">>, <<y, List(<<x, Dict(<<"c">>, <<y>>)>>)>>) }

ObsVector == ArraySpec(<<MaxDim>>, "float32", "observation")
ObsIndex == BoundedArraySpec(<<>>, "int32", 0, MaxElem, "observation")
ActDiscrete == BoundedArraySpec(<<>>, "int32", 0, MaxElem, "action")
ActOneBased == BoundedArraySpec(<<>>, "int64", 1, MaxElem, "action")
ActContinuous == BoundedArraySpec(<<MaxDim>>, "float32", -1, 1, "action")
DiscountSpec == BoundedArraySpec(<<>>, "float32", 0, 1, "discount")

ObservationSpecs == StructuresOver(ObsVector, ObsIndex)

ActionSpecs ==
  StructuresOver(ActDiscrete, ActContinuous)
  \cup {ActOneBased, List(<<ActOneBased, ActDiscrete>>)}

DiscountSpecs == {DiscountSpec, List(<<DiscountSpec>>)}

Envs ==
  [batched : BOOLEAN, observation_spec : ObservationSpecs,
   action_spec : ActionSpecs, discount_spec : DiscountSpecs]

\* What the wrapped environment's reset and step may answer: a timestep or
\* an error of its own.
EnvRewards == {Ramp(<<1>>, MaxElem), Ramp(<<MaxDim>>, 1)}
EnvTimeSteps ==
  [is_first : BOOLEAN, is_mid : BOOLEAN, is_last : BOOLEAN,
   reward : EnvRewards, discount : {Ramp(<<1>>, 0)},
   observation : Observations]
EnvErrors == {"RuntimeError"}
StepOutcomes ==
  {Return(t) : t \in EnvTimeSteps} \cup {Raise(e) : e \in EnvErrors}
CloseOutcomes == {Return(None)} \cup {Raise(e) : e \in EnvErrors}

Actions == {"act_0", "act_1"}

-----------------------------------------------------------------------------
(* PyToDMWrapper                                                           *)

Init ==
  /\ fn = "none"
  /\ fnArg = None
  /\ fnRet = None
  /\ env \in Envs
  /\ status = "new"
  /\ _environment = None
  /\ _observation_spec = Unset
  /\ _action_spec = Unset
  /\ _discount_spec = Unset
  /\ envLog = <<>>
  /\ callLog = <<>>
  /\ lastCall = NoCall
  /\ lastSrc = None
  /\ lastRet = None

\* Mutant: the specs are converted before the batched flag is looked at.
Construct_late_check ==
  /\ status = "new"
  /\ lastCall' = Call("__init__", "env")
  /\ lastSrc' = None
  /\ _environment' = EnvRef
  /\ envLog' = envLog \o <<Call("observation_spec", ""),
                            Call("action_spec", ""),
                            Call("discount_spec", ""),
                            Call("batched", "")>>
  /\ _observation_spec' = map_structure("_convert_spec", env.observation_spec)
  /\ _action_spec' = map_structure("_convert_action_spec", env.action_spec)
  /\ _discount_spec' = map_structure("_convert_spec", env.discount_spec)
  /\ status' = IF env.batched THEN "failed" ELSE "ready"
  /\ lastRet' = IF env.batched THEN Raise("NotImplementedError")
                ELSE Return(None)
  /\ UNCHANGED <<fn, fnArg, fnRet, env, callLog>>

\* PyToDMWrapper(env)
Construct ==
  /\ status = "new"
  /\ lastCall' = Call("__init__", "env")
  /\ lastSrc' = None
  /\ _environment' = EnvRef
  /\ IF env.batched
     THEN /\ envLog' = envLog \o <<Call("batched", "")>>
          /\ status' = "failed"
          /\ lastRet' = Raise("NotImplementedError")
          /\ UNCHANGED <<_observation_spec, _action_spec, _discount_spec>>
     ELSE /\ envLog' = envLog \o <<Call("batched", ""),
                                   Call("observation_spec", ""),
                                   Call("action_spec", ""),
                                   Call("discount_spec", "")>>
          /\ _observation_spec' =
               map_structure("_convert_spec", env.observation_spec)
          /\ _action_spec' =
               map_structure("_convert_action_spec", env.action_spec)
          /\ _discount_spec' =
               map_structure("_convert_spec", env.discount_spec)
          /\ status' = "ready"
          /\ lastRet' = Return(None)
  /\ UNCHANGED <<fn, fnArg, fnRet, env, callLog>>

\* A call on a constructed adapter that is relayed to the wrapped environment.
Relayed(call) ==
  /\ status = "ready"
  /\ Len(callLog) < MaxCalls
  /\ callLog' = Append(callLog, call)
  /\ lastCall' = call

\* Mutant: a reset that fails is tried once more.
Reset_retry ==
  /\ Relayed(Call("reset", ""))
  /\ \E src \in StepOutcomes, again \in StepOutcomes :
       /\ envLog' = IF src.kind = "raise"
                    THEN envLog \o <<Call("reset", ""), Call("reset", "")>>
                    ELSE Append(envLog, Call("reset", ""))
       /\ lastSrc' = src
       /\ lastRet' = LET got == IF src.kind = "raise" THEN again ELSE src
                     IN IF got.kind = "raise" THEN got
                        ELSE _convert_timestep(got.value)
  /\ UNCHANGED <<fn, fnArg, fnRet, env, status, _environment,
                 _observation_spec, _action_spec, _discount_spec>>

\* reset()
Reset ==
  /\ Relayed(Call("reset", ""))
  /\ \E src \in StepOutcomes :
       /\ envLog' = Append(envLog, Call("reset", ""))
       /\ lastSrc' = src
       /\ lastRet' = IF src.kind = "raise" THEN src
                     ELSE _convert_timestep(src.value)
  /\ UNCHANGED <<fn, fnArg, fnRet, env, status, _environment,
                 _observation_spec, _action_spec, _discount_spec>>

\* Mutant: the wrapped environment is stepped with a fixed action.
Step_fixed_action(action) ==
  /\ Relayed(Call("step", action))
  /\ \E src \in StepOutcomes :
       /\ envLog' = Append(envLog, Call("step", "act_0"))
       /\ lastSrc' = src
       /\ lastRet' = IF src.kind = "raise" THEN src
                     ELSE _convert_timestep(src.value)
  /\ UNCHANGED <<fn, fnArg, fnRet, env, status, _environment,
                 _observation_spec, _action_spec, _discount_spec>>

\* step(action)
Step(action) ==
  /\ Relayed(Call("step", action))
  /\ \E src \in StepOutcomes :
       /\ envLog' = Append(envLog, Call("step", action))
       /\ lastSrc' = src
       /\ lastRet' = IF src.kind = "raise" THEN src
                     ELSE _convert_timestep(src.value)
  /\ UNCHANGED <<fn, fnArg, fnRet, env, status, _environment,
                 _observation_spec, _action_spec, _discount_spec>>

\* close()
Close ==
  /\ Relayed(Call("close", ""))
  /\ \E src \in CloseOutcomes :
       /\ envLog' = Append(envLog, Call("close", ""))
       /\ lastSrc' = src
       /\ lastRet' = IF src.kind = "raise" THEN src ELSE Return(None)
  /\ UNCHANGED <<fn, fnArg, fnRet, env, status, _environment,
                 _observation_spec, _action_spec, _discount_spec>>

\* A spec accessor: answers from the adapter's own field.
Accessor(name, field) ==
  /\ status = "ready"
  /\ lastCall' = Call(name, "")
  /\ lastSrc' = None
  /\ lastRet' = Return(field)
  /\ UNCHANGED <<fn, fnArg, fnRet, env, status, _environment,
                 _observation_spec, _action_spec, _discount_spec, envLog,
                 callLog>>

\* Mutant: the observation spec is converted anew at every call.
ObservationSpec_requery ==
  /\ status = "ready"
  /\ lastCall' = Call("observation_spec", "")
  /\ lastSrc' = None
  /\ envLog' = Append(envLog, Call("observation_spec", ""))
  /\ lastRet' = Return(map_structure("_convert_spec", env.observation_spec))
  /\ UNCHANGED <<fn, fnArg, fnRet, env, status, _environment,
                 _observation_spec, _action_spec, _discount_spec, callLog>>

\* observation_spec()
ObservationSpec == Accessor("observation_spec", _observation_spec)

\* action_spec()
ActionSpec == Accessor("action_spec", _action_spec)

\* discount_spec()
DiscountSpecAccessor == Accessor("discount_spec", _discount_spec)

Next ==
  \/ Construct
  \/ Reset
  \/ \E action \in Actions : Step(action)
  \/ Close
  \/ ObservationSpec
  \/ ActionSpec
  \/ DiscountSpecAccessor

Spec == Init /\ [][Next]_vars

-----------------------------------------------------------------------------
(* Properties of _convert_timestep (checked under SpecTimestep)            *)

Converted == fn = "_convert_timestep"

\* How many of is_first / is_mid / is_last hold of a source timestep.
PhaseCount(t) ==
  (IF t.is_first THEN 1 ELSE 0) + (IF t.is_mid THEN 1 ELSE 0)
  + (IF t.is_last THEN 1 ELSE 0)

\* C1, as stated: the conversion raises ValueError whenever the number of
\* phases that hold is not exactly one (none, or more than one), and yields
\* a timestep only when exactly one holds.
C1_ExactlyOnePhaseOrError ==
  Converted =>
    /\ (PhaseCount(fnArg) # 1) => fnRet = Raise("ValueError")
    /\ (fnRet.kind = "return") => PhaseCount(fnArg) = 1

\* C1, amended: the conversion raises ValueError exactly when none of the
\* three phases holds; whenever at least one holds (also when more than one
\* does) it yields a timestep, typed FIRST if is_first holds, else LAST if
\* is_last holds, else MID.
C1_ErrorIffNoPhase ==
  Converted =>
    /\ (PhaseCount(fnArg) = 0) <=> (fnRet = Raise("ValueError"))
    /\ (PhaseCount(fnArg) >= 1) <=> (fnRet.kind = "return")
    /\ (fnRet.kind = "return") =>
         /\ fnArg.is_first => fnRet.value.step_type = "FIRST"
         /\ (~fnArg.is_first /\ fnArg.is_last) =>
              fnRet.value.step_type = "LAST"
         /\ (~fnArg.is_first /\ ~fnArg.is_last) =>
              fnRet.value.step_type = "MID"

\* An unrecognised timestep has been converted, to a ValueError.
C1_Witness ==
  Converted /\ PhaseCount(fnArg) = 0 /\ fnRet = Raise("ValueError")

RECURSIVE DropOnes(_)
DropOnes(shape) ==
  IF shape = <<>> THEN <<>>
  ELSE IF Head(shape) = 1 THEN DropOnes(Tail(shape))
  ELSE <<Head(shape)>> \o DropOnes(Tail(shape))

\* `out` holds the elements of `src` in the same order with the singleton
\* dimensions removed: an all-singleton shape becomes a scalar, a shape with
\* no singleton dimension is untouched.
SqueezedOf(out, src) ==
  /\ out.data = src.data
  /\ out.shape = DropOnes(src.shape)
  /\ (\A i \in 1..Len(src.shape) : src.shape[i] = 1) => out.shape = <<>>
  /\ (\A i \in 1..Len(src.shape) : src.shape[i] # 1) => out = src

-----------------------------------------------------------------------------
(* Properties of the leaf converters (checked under SpecLeaf)              *)

\* The bounded descriptor with the shape, element type, name and bounds of
\* a bounded source spec; the unbounded one of an unbounded source spec.
SameDescriptor(out, spec) ==
  /\ out.shape = spec.shape
  /\ out.dtype = spec.dtype
  /\ out.name = spec.name
  /\ IF spec.kind = "BoundedArraySpec"
     THEN /\ out.kind = "BoundedArray"
          /\ out.minimum = spec.minimum
          /\ out.maximum = spec.maximum
          /\ DOMAIN out = {"kind", "shape", "dtype", "name", "minimum",
                           "maximum"}
     ELSE /\ out.kind = "Array"
          /\ DOMAIN out = {"kind", "shape", "dtype", "name"}

\* The discrete-action pattern: bounded, scalar, integer, minimum 0.
IsZeroBasedScalarInteger(spec) ==
  /\ spec.kind = "BoundedArraySpec"
  /\ spec.shape = <<>>
  /\ spec.dtype \in {"int32", "int64"}
  /\ spec.minimum.data = <<0>>

\* C3: the action converter yields a discrete descriptor iff the leaf is
\* bounded, scalar, integer and has minimum 0; its cardinality is then
\* maximum - minimum + 1, so that [0, cardinality - 1] is the source range,
\* with element type and name kept; every other leaf comes out as the
\* generic converter makes it, bounded with its bounds when it is bounded.
C3_DiscreteIffZeroBasedScalarInteger ==
  (fn = "_convert_action_spec") =>
    LET out == fnRet.value IN
    /\ (out.kind = "DiscreteArray") <=> IsZeroBasedScalarInteger(fnArg)
    /\ (out.kind = "DiscreteArray") =>
         /\ out.num_values
              = fnArg.maximum.data[1] - fnArg.minimum.data[1] + 1
         /\ fnArg.minimum.data[1] = 0
         /\ fnArg.maximum.data[1] = out.num_values - 1
         /\ out.dtype = fnArg.dtype
         /\ out.name = fnArg.name
    /\ (out.kind # "DiscreteArray") =>
         /\ out = _convert_spec(fnArg)
         /\ SameDescriptor(out, fnArg)

\* A zero-based scalar integer leaf with maximum 2 became a discrete
\* descriptor of 3 values.
C3_Witness ==
  /\ fn = "_convert_action_spec"
  /\ IsZeroBasedScalarInteger(fnArg)
  /\ fnArg.maximum.data = <<2>>
  /\ fnRet.value.kind = "DiscreteArray"
  /\ fnRet.value.num_values = 3

\* C4: the generic converter maps a bounded spec to a bounded descriptor
\* with the same shape, element type, name, minimum and maximum, and an
\* unbounded spec to an unbounded descriptor with the same shape, element
\* type and name and no bounds; it never yields a discrete descriptor.
C4_GenericKeepsBoundsNeverDiscrete ==
  (fn = "_convert_spec") =>
    /\ SameDescriptor(fnRet.value, fnArg)
    /\ fnRet.value.kind # "DiscreteArray"

\* The generic converter was given a zero-based scalar integer leaf and
\* answered with a bounded descriptor.
C4_Witness ==
  /\ fn = "_convert_spec"
  /\ IsZeroBasedScalarInteger(fnArg)
  /\ fnRet.value.kind = "BoundedArray"
  /\ fnRet.value.maximum = fnArg.maximum

-----------------------------------------------------------------------------
(* Properties of PyToDMWrapper (checked under Spec)                        *)

SpecOps == {"observation_spec", "action_spec", "discount_spec"}

\* The calls of a log that ask the wrapped environment for a spec.
SpecQueries(log) == SelectSeq(log, LAMBDA c : c.op \in SpecOps)

\* What a successful construction asks of the wrapped environment.
ConstructionQueries ==
  <<Call("batched", ""), Call("observation_spec", ""),
    Call("action_spec", ""), Call("discount_spec", "")>>

\* The last adapter call was a reset or a step whose wrapped call returned
\* a timestep.
GotTimestep == lastCall.op \in {"reset", "step"} /\ lastSrc.kind = "return"

\* C2: whenever reset() or step() is answered by the wrapped environment
\* with a timestep of which is_first holds, whatever its reward and
\* discount, the adapter returns step type FIRST, reward 0.0 and discount
\* 1.0, after any sequence of calls.
C2_FirstStepNeutral ==
  (GotTimestep /\ lastSrc.value.is_first) =>
    /\ lastRet.kind = "return"
    /\ lastRet.value.step_type = "FIRST"
    /\ lastRet.value.reward = Scalar(0)
    /\ lastRet.value.discount = Scalar(1)

\* A step made after an earlier call was answered with a first-phase
\* timestep carrying the reward [2] and the discount [0].
C2_Witness ==
  /\ Len(callLog) >= 2
  /\ lastCall.op = "step"
  /\ lastSrc.kind = "return"
  /\ lastSrc.value.is_first
  /\ lastSrc.value.reward = Ramp(<<1>>, 2)
  /\ lastSrc.value.discount = Ramp(<<1>>, 0)
  /\ lastRet.kind = "return"
  /\ lastRet.value.reward = Scalar(0)

\* C5: over a batched environment the constructor raises
\* NotImplementedError having only read the batched flag: no spec of the
\* wrapped environment is queried, no converted spec is cached, and no
\* reset, step or close reaches the wrapped environment.
C5_BatchedRejected ==
  /\ env.batched => status \in {"new", "failed"}
  /\ (status = "failed") =>
       /\ env.batched
       /\ lastRet = Raise("NotImplementedError")
       /\ envLog = <<Call("batched", "")>>
       /\ _observation_spec = Unset
       /\ _action_spec = Unset
       /\ _discount_spec = Unset
       /\ callLog = <<>>

\* The constructor has rejected a batched environment.
C5_Witness ==
  /\ env.batched
  /\ status = "failed"
  /\ lastCall.op = "__init__"
  /\ lastRet = Raise("NotImplementedError")

\* Each spec accessor answers with the adapter's cached field.
AccessorAnswersCache ==
  /\ (lastCall.op = "observation_spec") => lastRet = Return(_observation_spec)
  /\ (lastCall.op = "action_spec") => lastRet = Return(_action_spec)
  /\ (lastCall.op = "discount_spec") => lastRet = Return(_discount_spec)

\* C6: the converted specs are computed once, at construction, and never
\* change: on a constructed adapter every step (reset, step, close or an
\* accessor, also one in which the wrapped environment raises) leaves the
\* three cached specs as they are and asks the wrapped environment for no
\* spec, and every accessor answers with the cached spec.
C6_SpecsWriteOnce ==
  /\ [](status = "ready" =>
          SpecQueries(envLog) = SpecQueries(ConstructionQueries))
  /\ [][status = "ready" =>
          /\ UNCHANGED <<_observation_spec, _action_spec, _discount_spec>>
          /\ SpecQueries(envLog') = SpecQueries(envLog)
          /\ AccessorAnswersCache']_vars

\* observation_spec() has been called on an adapter that had relayed two
\* calls, and answered with the cached spec.
C6_Witness ==
  /\ status = "ready"
  /\ lastCall.op = "observation_spec"
  /\ Len(callLog) >= 2
  /\ lastRet = Return(_observation_spec)
  /\ _observation_spec # Unset

\* C8: when the wrapped reset, step or close raises, the adapter's call
\* raises that same error, the wrapped operation has been invoked exactly
\* once, and the adapter's fields are as they were.
C8_ErrorsPropagate ==
  [][(callLog' # callLog /\ lastSrc'.kind = "raise") =>
       /\ lastRet' = lastSrc'
       /\ envLog' = Append(envLog, lastCall')
       /\ UNCHANGED <<status, _environment, _observation_spec, _action_spec,
                      _discount_spec>>]_vars

\* The wrapped environment's reset raised RuntimeError and the adapter's
\* reset raised it too.
C8_Witness ==
  /\ lastCall.op = "reset"
  /\ lastSrc = Raise("RuntimeError")
  /\ lastRet = Raise("RuntimeError")
  /\ envLog = ConstructionQueries \o callLog

\* `out` has the containers of `src` (the same nesting, keys, lengths and
\* order) and at every leaf position the converter's result for the leaf
\* `src` has there.
RECURSIVE Conforms(_, _, _)
Conforms(func, src, out) ==
  IF src.kind = "list"
  THEN /\ out.kind = "list"
       /\ Len(out.items) = Len(src.items)
       /\ \A i \in 1..Len(src.items) :
            Conforms(func, src.items[i], out.items[i])
  ELSE IF src.kind = "dict"
  THEN /\ out.kind = "dict"
       /\ out.keys = src.keys
       /\ Len(out.values) = Len(src.values)
       /\ \A i \in 1..Len(src.values) :
            Conforms(func, src.values[i], out.values[i])
  ELSE out = (IF func = "_convert_action_spec"
              THEN _convert_action_spec(src) ELSE _convert_spec(src))

\* C9: after construction the cached observation, action and discount
\* specs have the container shape of the wrapped environment's specs, with
\* the generic converter's result at every leaf of the observation and
\* discount specs and the action converter's at every leaf of the action
\* spec.
C9_StructurePreserved ==
  (status = "ready") =>
    /\ Conforms("_convert_spec", env.observation_spec, _observation_spec)
    /\ Conforms("_convert_action_spec", env.action_spec, _action_spec)
    /\ Conforms("_convert_spec", env.discount_spec, _discount_spec)

\* An adapter was constructed over a mapping that holds a list that holds
\* a mapping, and its action spec holds a discrete leaf.
C9_Witness ==
  /\ status = "ready"
  /\ env.observation_spec.kind = "dict"
  /\ env.observation_spec.values[2].kind = "list"
  /\ _observation_spec.kind = "dict"
  /\ _observation_spec.values[2].kind = "list"
  /\ _observation_spec.values[2].items[2].kind = "dict"
  /\ env.action_spec.kind = "list"
  /\ _action_spec.items[1].kind = "DiscreteArray"
  /\ _action_spec.items[2].kind = "BoundedArray"

\* C10: the wrapped environment receives exactly the adapter's reset, step
\* and close calls, in order, one each, every step with the caller's
\* action; a reset or step answered with a timestep returns the conversion
\* of that timestep, with the same observation and a step type FIRST, MID
\* or LAST of which the source's is_first, is_mid or is_last holds.
C10_OneToOneRelay ==
  (status = "ready") =>
    /\ envLog = ConstructionQueries \o callLog
    /\ GotTimestep =>
         /\ lastCall = callLog[Len(callLog)]
         /\ lastRet = _convert_timestep(lastSrc.value)
         /\ (lastRet.kind = "return") =>
              /\ lastRet.value.observation = lastSrc.value.observation
              /\ (lastRet.value.step_type = "FIRST") => lastSrc.value.is_first
              /\ (lastRet.value.step_type = "MID") => lastSrc.value.is_mid
              /\ (lastRet.value.step_type = "LAST") => lastSrc.value.is_last
              /\ lastRet.value.step_type \in {"FIRST", "MID", "LAST"}

\* reset() then step(act_1) were relayed and the step came back LAST.
C10_Witness ==
  /\ callLog = <<Call("reset", ""), Call("step", "act_1")>>
  /\ envLog = ConstructionQueries \o callLog
  /\ lastSrc.kind = "return"
  /\ lastSrc.value.is_last
  /\ lastRet.kind = "return"
  /\ lastRet.value.step_type = "LAST"
  /\ lastRet.value.observation = "obs_b"

====
